---- MODULE Spec2Model ----
(***************************************************************************)
(* The iterative retrieval-and-answer loop of the document chatbot:        *)
(* answer_question (API.py), the chunk batch planner, context assembler    *)
(* and result processor (chat_engine/iteration.py), the answer classifier  *)
(* (chat_engine/utils.py), the page lookups (chat_engine/retrieval.py) and *)
(* the completion client with its rotating credential pool (API.py).       *)
(*                                                                         *)
(* Text is modelled as a sequence of lines, a line as a sequence of        *)
(* tokens (words separated by single spaces).  A Python substring test     *)
(* for a phrase is a test for adjacent tokens on one line.                 *)
(***************************************************************************)
EXTENDS Integers, Sequences, FiniteSets, TLC

\* ------------------------------------------------------------------ bounds

\* Successful expansions of one source that a sequence of planner calls makes.
MaxSteps == 5
\* Entries of a list given to trim_context_to_fit on its own, and its budget.
MaxParts == 3
MaxBudget == 5
\* Chunks of a list given to prepare_iteration_context on its own.
MaxBatch == 2
\* Pages of the longest document of the corpus.
MaxPage == 3
\* Credentials in GROQ_API_KEYS (the environment sets 1..12 of them).
NumKeys == 2
\* The clock is observed up to this many seconds; later instants read as it.
MaxTime == 1
\* time.time() is a float: the model counts it in this many ticks a second.
TicksPerSecond == 2
\* Lines of an answer's Sources section.
MaxCites == 1

\* ------------------------------------------------------- program constants

TEXT_CHUNKS_PER_ITERATION == 6
TABLE_CHUNKS_PER_ITERATION == 4
API_TEXT_CHUNKS_PER_ITERATION == 2
API_TABLE_CHUNKS_PER_ITERATION == 2
BASE_SURROUNDING_RANGE == 1
MAX_SURROUNDING_RANGE == 4
DEFAULT_WAIT_TIME == 60
TRANSPORT_SLEEP == 5
\* A Retry-After header the server may send with a 429.
RetryAfterHint == 1

\* -------------------------------------------------------------------- text

Min(a, b) == IF a < b THEN a ELSE b
Max(a, b) == IF a > b THEN a ELSE b

\* str.lower() on the vocabulary of the model.
Lower(tok) ==
    CASE tok = "Status:" -> "status:"
      [] tok = "STATUS:" -> "status:"
      [] tok = "Sources:" -> "sources:"
      [] tok = "SOURCES:" -> "sources:"
      [] tok = "Beta.pdf" -> "beta.pdf"
      [] tok = "Answer:" -> "answer:"
      [] tok = "Partial" -> "partial"
      [] tok = "Complete" -> "complete"
      [] tok = "No" -> "no"
      [] tok = "NO" -> "no"
      [] tok = "PARTIAL" -> "partial"
      [] tok = "INFORMATION" -> "information"
      [] tok = "Unknown" -> "unknown"
      [] OTHER -> tok

LowerLine(line) == [i \in 1..Len(line) |-> Lower(line[i])]
LowerText(text) == [i \in 1..Len(text) |-> LowerLine(text[i])]

\* phrase in line: the tokens of phrase occur adjacent, in order.
LineHasPhrase(line, phrase) ==
    \E i \in 1..(Len(line) - Len(phrase) + 1) :
        SubSeq(line, i, i + Len(phrase) - 1) = phrase

\* phrase in text (the phrase holds no line break).
TextHasPhrase(text, phrase) ==
    \E n \in 1..Len(text) : LineHasPhrase(text[n], phrase)

\* The mangled "cross mark" that precedes the canned phrase in utils.py:27.
MangledCross == "a^OE"

check_if_answer_incomplete(answer) ==
    LET answer_lower == LowerText(answer)
    IN  /\ TextHasPhrase(answer_lower, <<"status:">>)
        /\ TextHasPhrase(answer_lower, <<"partial", "information">>)

check_if_answer_insufficient(answer) ==
    LET answer_lower == LowerText(answer)
    IN  \/ TextHasPhrase(answer_lower,
              <<MangledCross, "no", "sufficient", "information", "found">>)
        \/ /\ TextHasPhrase(answer_lower, <<"status:">>)
           /\ TextHasPhrase(answer_lower, <<"no", "information">>)

\* A line the pattern ^status: matches at its start (re.I, re.M).
IsStatusLine(line) == Len(line) > 0 /\ Lower(line[1]) = "status:"

\* str.strip() on a text: leading and trailing blank lines go.
RECURSIVE StripText(_)
StripText(text) ==
    IF text = <<>> THEN <<>>
    ELSE IF Head(text) = <<>> THEN StripText(Tail(text))
    ELSE IF text[Len(text)] = <<>> THEN StripText(SubSeq(text, 1, Len(text) - 1))
    ELSE text

\* re.sub(r"(?im)^status:\s*.*$", "", answer): a match starts at a line that
\* begins with status:, \s* runs over the rest of the blank space, line
\* breaks included, and .* takes the rest of the line it then stands on.  So
\* a status line with a value loses the line; one with no value loses also
\* the blank lines after it and the next line that is not blank.  The line
\* break before the match stays: an empty line is left in its place.
RECURSIVE SubStatus(_)
SubStatus(text) ==
    IF text = <<>> THEN <<>>
    ELSE IF ~IsStatusLine(Head(text)) THEN <<Head(text)>> \o SubStatus(Tail(text))
    ELSE IF Len(Head(text)) > 1 THEN <<<<>>>> \o SubStatus(Tail(text))
    ELSE LET rest == Tail(text)
             blanks == CHOOSE k \in 0..Len(rest) :
                          /\ \A j \in 1..k : rest[j] = <<>>
                          /\ (k < Len(rest) => rest[k + 1] # <<>>)
         IN  <<<<>>>> \o SubStatus(SubSeq(rest, blanks + 2, Len(rest)))

remove_status_from_answer(answer) == StripText(SubStatus(answer))

\* ------------------------------------------------------ chunks and corpus

Sources == {"docs/alpha.pdf", "beta.pdf"}

\* source.split("/")[-1]
Basename(source) ==
    CASE source = "docs/alpha.pdf" -> "alpha.pdf"
      [] OTHER -> source

\* name.replace(".pdf", "")
DropPdf(name) ==
    CASE name = "alpha.pdf" -> "alpha"
      [] name = "beta.pdf" -> "beta"
      [] OTHER -> name

\* Python's None, where a number is expected.
None == 0

Chunk(source, page, type) == [source |-> source, page |-> page, type |-> type]

\* f"{source}_{page}": the pair, as no source of the corpus holds "_".
Key(chunk) == <<chunk.source, chunk.page>>

IsTable(chunk) == chunk.type \in {"table", "table_with_context"}

\* The indexed documents, in the order the index returns them: alpha.pdf has
\* MaxPage pages of text and tables on its first two pages, beta.pdf is one
\* page of text with a table.
CollectionSeq ==
    [p \in 1..MaxPage |-> Chunk("docs/alpha.pdf", p, "text")]
    \o <<Chunk("beta.pdf", 1, "text"),
         Chunk("docs/alpha.pdf", 1, "table_with_context"),
         Chunk("docs/alpha.pdf", 2, "table"),
         Chunk("beta.pdf", 1, "table")>>

AllKeys == {Key(CollectionSeq[i]) : i \in 1..Len(CollectionSeq)}

\* The ranked answers of the two similarity queries of search_chunks, before
\* the cut to n_results and the drop of short text chunks.
TextRanking ==
    <<Chunk("docs/alpha.pdf", 1, "text"), Chunk("beta.pdf", 1, "text")>>
    \o [i \in 1..(MaxPage - 1) |-> Chunk("docs/alpha.pdf", i + 1, "text")]

TableRanking ==
    <<Chunk("docs/alpha.pdf", 2, "table"),
      Chunk("docs/alpha.pdf", 1, "table_with_context"),
      Chunk("beta.pdf", 1, "table")>>

\* collection.query(where source = .. and page = ..): at most 5 results.
PageLookup(source, target_page) ==
    SelectSeq(CollectionSeq,
              LAMBDA c : c.source = source /\ c.page = target_page)

\* ---------------------------------------------------------------- retrieval

\* range(-pages_range, pages_range + 1) as a sequence
OffsetSeq(pages_range) ==
    [i \in 1..(2 * pages_range + 1) |-> i - pages_range - 1]

\* A result that is used more than once is bound by "x \in {e}", which gives
\* it one evaluation: v = F(e) is written CHOOSE v \in {F(x) : x \in {e}} : TRUE.

\* The loop over the offsets of one current page (retrieval.py 101-142);
\* queried lists the pages collection.query is called for, in order.
RECURSIVE SurroundOffsets(_, _, _, _, _, _)
SurroundOffsets(source, current_page, offsets, seen, out, queried) ==
    IF offsets = <<>> THEN [seen |-> seen, out |-> out, queried |-> queried]
    ELSE LET offset == Head(offsets)
             target_page == current_page + offset
             key == <<source, target_page>>
         IN  IF offset = 0 \/ target_page < 1 \/ key \in seen
             THEN SurroundOffsets(source, current_page, Tail(offsets), seen, out,
                                  queried)
             ELSE SurroundOffsets(source, current_page, Tail(offsets),
                                  seen \cup {key},
                                  out \o PageLookup(source, target_page),
                                  Append(queried, key))

\* A chunk of merged pages, page "first-last" (retrieval.py 83-86).
MergedChunk(source, first, last, type) ==
    [source |-> source, page |-> first, page_to |-> last, type |-> type]

\* The pages of a cited chunk (retrieval.py 83-96).
CurrentPages(chunk) ==
    IF "page_to" \in DOMAIN chunk
    THEN [i \in 1..(chunk.page_to - chunk.page + 1) |-> chunk.page + i - 1]
    ELSE <<chunk.page>>

RECURSIVE SurroundPages(_, _, _, _, _, _)
SurroundPages(source, current_pages, pages_range, seen, out, queried) ==
    IF current_pages = <<>> THEN [seen |-> seen, out |-> out, queried |-> queried]
    ELSE CHOOSE v \in {SurroundPages(source, Tail(current_pages), pages_range,
                                      r.seen, r.out, r.queried) :
                          r \in {SurroundOffsets(source, Head(current_pages),
                                                 OffsetSeq(pages_range), seen, out,
                                                 queried)}} :
             TRUE

RECURSIVE SurroundChunks(_, _, _, _, _)
SurroundChunks(cited_chunks, pages_range, seen, out, queried) ==
    IF cited_chunks = <<>> THEN [out |-> out, queried |-> queried]
    ELSE CHOOSE v \in {SurroundChunks(Tail(cited_chunks), pages_range,
                                       r.seen, r.out, r.queried) :
                          r \in {SurroundPages(Head(cited_chunks).source,
                                               CurrentPages(Head(cited_chunks)),
                                               pages_range, seen, out, queried)}} :
             TRUE

\* The pages get_surrounding_pages_smart asks the collection for, in order.
surrounding_queries(cited_chunks, pages_range) ==
    SurroundChunks(cited_chunks, pages_range, {}, <<>>, <<>>).queried

get_surrounding_pages_smart(cited_chunks, pages_range) ==
    SurroundChunks(cited_chunks, pages_range, {}, <<>>, <<>>).out

\* ------------------------------------------------------------------ planner

\* pool[index : index + size]
Slice(pool, index, size) ==
    SubSeq(pool, index + 1, Min(index + size, Len(pool)))

UncappedRange(current_step) == BASE_SURROUNDING_RANGE + current_step

\* iteration.py 71-74: the range of an expansion at a source's step.
dynamic_range(current_step) ==
    Min(BASE_SURROUNDING_RANGE + current_step, MAX_SURROUNDING_RANGE)

\* The loop over the cited sources (iteration.py 58-85).
RECURSIVE ExpandCited(_, _, _, _)
ExpandCited(cited, seen_sources, steps, expanded_chunks) ==
    IF cited = <<>> THEN [steps |-> steps, expanded_chunks |-> expanded_chunks]
    ELSE LET chunk == Head(cited)
             source == chunk.source
         IN  IF source \in seen_sources
             THEN ExpandCited(Tail(cited), seen_sources, steps, expanded_chunks)
             ELSE LET current_step == steps[source]
                  IN  CHOOSE v \in {
                          IF surrounding # <<>>
                          THEN ExpandCited(Tail(cited), seen_sources \cup {source},
                                   [steps EXCEPT ![source] = current_step + 1],
                                   expanded_chunks \o surrounding)
                          ELSE ExpandCited(Tail(cited), seen_sources \cup {source},
                                   steps, expanded_chunks) :
                          surrounding \in {get_surrounding_pages_smart(<<chunk>>,
                                                       dynamic_range(current_step))}} :
                      TRUE

\* An expansion that hands over every chunk the lookups found.
KeepExpanded(expanded_chunks, used, filtered_chunks) ==
    [used |-> used \cup {Key(expanded_chunks[i]) : i \in 1..Len(expanded_chunks)},
     filtered |-> filtered_chunks \o expanded_chunks]

\* The filter of the expanded chunks by used_pages (iteration.py 88-93).
RECURSIVE FilterExpanded(_, _, _)
FilterExpanded(expanded_chunks, used, filtered_chunks) ==
    IF expanded_chunks = <<>> THEN [used |-> used, filtered |-> filtered_chunks]
    ELSE LET ch == Head(expanded_chunks)
         IN  IF Key(ch) \notin used
             THEN FilterExpanded(Tail(expanded_chunks), used \cup {Key(ch)},
                                 Append(filtered_chunks, ch))
             ELSE FilterExpanded(Tail(expanded_chunks), used, filtered_chunks)

Unfiltered(candidates, used) == candidates

\* The candidates of a window that are not in used_pages (iteration.py 117-127).
UnusedOf(candidates, used) ==
    SelectSeq(candidates, LAMBDA chunk : Key(chunk) \notin used)

\* The advancing state of the planner (iteration.py 109-129).
AdvancingBatch(all_text, all_tables, t_index, tb_index, used, steps) ==
    IF t_index >= Len(all_text) /\ tb_index >= Len(all_tables)
    THEN [text |-> <<>>, tables |-> <<>>, is_expanding |-> FALSE,
          used |-> used, steps |-> steps]
    ELSE [text |-> UnusedOf(Slice(all_text, t_index, TEXT_CHUNKS_PER_ITERATION), used),
          tables |-> UnusedOf(Slice(all_tables, tb_index, TABLE_CHUNKS_PER_ITERATION), used),
          is_expanding |-> FALSE, used |-> used, steps |-> steps]

\* get_next_chunk_batch: the batches, is_expanding, and used_pages and
\* source_expansion_steps as the call leaves them.
get_next_chunk_batch(iter, all_text, all_tables, t_index, tb_index, cited, answer, used, steps) ==
    IF iter = 1
    THEN [text |-> Slice(all_text, t_index, TEXT_CHUNKS_PER_ITERATION),
          tables |-> Slice(all_tables, tb_index, TABLE_CHUNKS_PER_ITERATION),
          is_expanding |-> FALSE, used |-> used, steps |-> steps]
    ELSE IF check_if_answer_incomplete(answer) /\ cited # <<>>
    THEN CHOOSE v \in {
             LET new_text_batch == SelectSeq(f.filtered, LAMBDA c : ~IsTable(c))
                 new_table_batch == SelectSeq(f.filtered, LAMBDA c : IsTable(c))
             IN  IF new_text_batch # <<>> \/ new_table_batch # <<>>
                 THEN [text |-> new_text_batch, tables |-> new_table_batch,
                       is_expanding |-> TRUE, used |-> f.used, steps |-> f.steps]
                 ELSE AdvancingBatch(all_text, all_tables, t_index, tb_index,
                                     f.used, f.steps) :
             f \in {[steps |-> e.steps] @@ FilterExpanded(e.expanded_chunks, used, <<>>) :
                    e \in {ExpandCited(cited, {}, steps, <<>>)}}} :
         TRUE
    ELSE AdvancingBatch(all_text, all_tables, t_index, tb_index, used, steps)

\* ---------------------------------------------------------------- assembler

max_used_sources == 6

\* seq[-n:]
LastN(seq, n) == SubSeq(seq, Max(1, Len(seq) - n + 1), Len(seq))

AppendAll(chunks, seen_keys, acc) == [seen_keys |-> seen_keys, acc |-> acc \o chunks]

\* One of the three loops of prepare_iteration_context: a chunk whose key was
\* seen is skipped, the others are appended.
RECURSIVE AppendUnseen(_, _, _)
AppendUnseen(chunks, seen_keys, acc) ==
    IF chunks = <<>> THEN [seen_keys |-> seen_keys, acc |-> acc]
    ELSE LET chunk == Head(chunks)
         IN  IF Key(chunk) \in seen_keys
             THEN AppendUnseen(Tail(chunks), seen_keys, acc)
             ELSE AppendUnseen(Tail(chunks), seen_keys \cup {Key(chunk)},
                               Append(acc, chunk))

\* current_iteration_chunks of prepare_iteration_context: the recalled
\* sources, then the new tables, then the new text.
prepare_iteration_chunks(cited, new_text, new_tables) ==
    CHOOSE v \in {AppendUnseen(new_text, b.seen_keys, b.acc).acc :
                  b \in {AppendUnseen(new_tables, a.seen_keys, a.acc) :
                         a \in {AppendUnseen(LastN(cited, max_used_sources), {}, <<>>)}}} :
        TRUE

\* Text of the context is modelled by its length in characters.
MAX_CONTEXT_TOKENS == 4000
\* len("\n\n---\n\n")
SEPARATOR_CHARS == 7
TOKEN_CHARS == 4

\* len(chunk["content"]): the pages of the corpus are long, its tables shorter.
ContentChars(chunk) == IF IsTable(chunk) THEN 3000 ELSE 6000

SourceChars(source) == IF source = "docs/alpha.pdf" THEN 14 ELSE 8
PageChars(page) == IF page < 10 THEN 1 ELSE 2

\* The header line of an entry: "[. USED [TEXT] source pN]", "[. NEW source pN]".
HeaderChars(marker, chunk) ==
    IF marker = "USED"
    THEN 8 + (IF IsTable(chunk) THEN 7 ELSE 6) + 1 + SourceChars(chunk.source)
           + 2 + PageChars(chunk.page) + 1
    ELSE 7 + SourceChars(chunk.source) + 2 + PageChars(chunk.page) + 1

\* One element of context_parts: header, newline, content.
Entry(marker, chunk) ==
    [chunk |-> chunk, marker |-> marker,
     chars |-> HeaderChars(marker, chunk) + 1 + ContentChars(chunk)]

RECURSIVE SumChars(_)
SumChars(parts) ==
    IF parts = <<>> THEN 0 ELSE Head(parts).chars + SumChars(Tail(parts))

\* len("\n\n---\n\n".join(context_parts))
JoinedChars(parts) ==
    IF parts = <<>> THEN 0
    ELSE SumChars(parts) + SEPARATOR_CHARS * (Len(parts) - 1)

\* estimate_tokens, of a text of that many characters
estimate_tokens(chars) == chars \div TOKEN_CHARS

TrimsNothing(context_parts, tokens) == context_parts

\* trim_context_to_fit: the entries of the text it returns.
RECURSIVE trim_context_to_fit(_, _)
trim_context_to_fit(context_parts, tokens) ==
    IF estimate_tokens(JoinedChars(context_parts)) > tokens /\ Len(context_parts) > 1
    THEN trim_context_to_fit(SubSeq(context_parts, 1, Len(context_parts) - 1), tokens)
    ELSE context_parts

\* The entries of the chunks: the first n_used were appended by the loop over
\* the recalled sources, those up to n_tables by the loop over the tables.
MarkEntries(n_used, n_tables, chunks) ==
    [i \in 1..Len(chunks) |->
        Entry(IF i <= n_used THEN "USED"
              ELSE IF i <= n_tables THEN "NEW_TABLE" ELSE "NEW_TEXT",
              chunks[i])]

\* context_parts of prepare_iteration_context as line 203 finds it.
context_entries(cited, new_text, new_tables) ==
    CHOOSE v \in {MarkEntries(Len(ab.a.acc), Len(ab.b.acc),
                              AppendUnseen(new_text, ab.b.seen_keys, ab.b.acc).acc) :
                  ab \in {[a |-> a, b |-> AppendUnseen(new_tables, a.seen_keys, a.acc)] :
                          a \in {AppendUnseen(LastN(cited, max_used_sources), {}, <<>>)}}} :
        TRUE

\* prepare_iteration_context: the context and current_iteration_chunks.
prepare_iteration_context(cited, new_text, new_tables, tokens) ==
    CHOOSE v \in {[context |-> trim_context_to_fit(context_parts, tokens),
                   chunks |-> prepare_iteration_chunks(cited, new_text, new_tables)] :
                  context_parts \in {context_entries(cited, new_text, new_tables)}} :
        TRUE

\* --------------------------------------------------------------- classifier

\* The place (line, token) of the first "sources:" of the text, <<0, 0>> if none.
SourcesMarker(text) ==
    LET places == UNION {{<<n, j>> : j \in {k \in 1..Len(text[n]) :
                                     Lower(text[n][k]) = "sources:"}} :
                         n \in 1..Len(text)}
    IN  IF places = {} THEN <<0, 0>>
        ELSE CHOOSE pl \in places :
                \A q \in places : pl[1] < q[1] \/ (pl[1] = q[1] /\ pl[2] <= q[2])

\* line.strip("- ..."): the bullet tokens at both ends go.
RECURSIVE StripBullets(_)
StripBullets(line) ==
    IF line = <<>> THEN <<>>
    ELSE IF Head(line) = "-" THEN StripBullets(Tail(line))
    ELSE IF line[Len(line)] = "-" THEN StripBullets(SubSeq(line, 1, Len(line) - 1))
    ELSE line

\* A reading of the answer that takes every line of it for a citation line.
EveryLine(text) == LowerText(text)

\* The lines after the marker, lower-cased, blank ones dropped, bullets stripped.
SourceLines(text) ==
    CHOOSE v \in {[i \in 1..Len(kept) |-> StripBullets(kept[i])] :
                  kept \in {SelectSeq(LowerText(
                                <<SubSeq(text[m[1]], m[2] + 1, Len(text[m[1]]))>>
                                    \o SubSeq(text, m[1] + 1, Len(text))),
                                LAMBDA line : line # <<>>) :
                            m \in {SourcesMarker(text)}}} :
        TRUE

\* source_name in line: some token of the line holds the name.
NameInLine(source_name, line) ==
    \E i \in 1..Len(line) :
        line[i] = source_name \/ line[i] = source_name \o ".pdf"

\* The decimal digits of a page number, as str(page) writes them.
RECURSIVE Digits(_)
Digits(n) == IF n < 10 THEN <<n>> ELSE Append(Digits(n \div 10), n % 10)

\* a in b, for two runs of digits.
DigitsIn(a, b) ==
    \E i \in 0..(Len(b) - Len(a)) : SubSeq(b, i + 1, i + Len(a)) = a

\* The page numbers a line of the model may write, as "p12".
WrittenPages == 1..(MaxPage + 10)

\* The tokens "p12" whose digits hold the digits of the page, page by page.
PageTokens ==
    [page \in 0..(MaxPage + 10) |->
        {"p" \o ToString(n) :
            n \in {m \in WrittenPages : DigitsIn(Digits(page), Digits(m))}}]

\* str(page) in line: some token of the line holds the digits of the page.
PageInLine(page, line) ==
    \E i \in 1..Len(line) : line[i] \in PageTokens[page]

\* utils.py 65-69: a chunk with no source or no page is passed over; the
\* model writes "" for a missing source and None for a missing page.
HasSourceAndPage(chunk) == chunk.source # "" /\ chunk.page # None

extract_used_sources_from_answer(answer, used_chunks) ==
    IF SourcesMarker(answer) = <<0, 0>> THEN <<>>
    ELSE CHOOSE v \in {
             SelectSeq(used_chunks, LAMBDA chunk :
                 /\ HasSourceAndPage(chunk)
                 /\ \E source_name \in {Lower(DropPdf(Basename(chunk.source)))} :
                        \E n \in 1..Len(source_lines) :
                            /\ NameInLine(source_name, source_lines[n])
                            /\ PageInLine(chunk.page, source_lines[n])) :
             source_lines \in {SourceLines(answer)}} :
         TRUE

AddEveryCited(cited_in_this_iteration, updated_cumulative, used) ==
    [cited |-> updated_cumulative \o cited_in_this_iteration,
     used |-> used \cup {Key(cited_in_this_iteration[i]) :
                             i \in 1..Len(cited_in_this_iteration)}]

\* The loop that adds the new citations (iteration.py 239-252).
RECURSIVE AddCited(_, _, _)
AddCited(cited_in_this_iteration, updated_cumulative, used) ==
    IF cited_in_this_iteration = <<>>
    THEN [cited |-> updated_cumulative, used |-> used]
    ELSE LET new_source == Head(cited_in_this_iteration)
             is_duplicate ==
                 \E i \in 1..Len(updated_cumulative) :
                     /\ updated_cumulative[i].source = new_source.source
                     /\ updated_cumulative[i].page = new_source.page
         IN  IF is_duplicate
             THEN AddCited(Tail(cited_in_this_iteration), updated_cumulative, used)
             ELSE AddCited(Tail(cited_in_this_iteration),
                           Append(updated_cumulative, new_source),
                           used \cup {Key(new_source)})

\* The verdict of a round (iteration.py 255-258).
IsCompleteVerdict(is_insufficient, is_incomplete) ==
    (~is_insufficient) /\ (~is_incomplete)

\* A round that reads the Sources section of every answer.
ExtractsAlways(answer, chunks, cited, used) ==
    LET insufficient == check_if_answer_insufficient(answer)
        incomplete == check_if_answer_incomplete(answer)
        cited_now == extract_used_sources_from_answer(answer, chunks)
        r == AddCited(cited_now, cited, used)
    IN  [cited |-> r.cited, used |-> r.used,
         is_complete |-> IsCompleteVerdict(insufficient, incomplete),
         is_insufficient |-> insufficient, is_incomplete |-> incomplete,
         cited_in_this_iteration |-> cited_now]

process_iteration_result(answer, chunks, cited, used) ==
    CHOOSE v \in UNION {
        {[cited |-> r.cited, used |-> r.used,
          is_complete |-> IsCompleteVerdict(c.insufficient, c.incomplete),
          is_insufficient |-> c.insufficient, is_incomplete |-> c.incomplete,
          cited_in_this_iteration |-> c.cited_now] :
         r \in {AddCited(c.cited_now, cited, used)}} :
        c \in {[insufficient |-> insufficient,
                incomplete |-> check_if_answer_incomplete(answer),
                cited_now |-> IF insufficient THEN <<>>
                              ELSE extract_used_sources_from_answer(answer, chunks)] :
               insufficient \in {check_if_answer_insufficient(answer)}}} :
        TRUE

\* ------------------------------------------------------- the model's answers

BodyKinds == {"plain", "hedged"}
StatusForms == {"Complete", "Partial", "No", "CompleteBelow", "missing"}

BodyLines(body) ==
    CASE body = "plain" -> <<<<"Answer:">>, <<"fees", "are", "due">>>>
      [] body = "partly" ->
             <<<<"Answer:">>, <<"only", "partial", "information", "on", "fees">>>>
      [] body = "canned" ->
             <<<<"Answer:">>, <<MangledCross, "No", "sufficient", "information", "found">>>>
      [] body = "cannedClean" ->
             <<<<"Answer:">>, <<"No", "sufficient", "information", "found">>>>
      [] body = "citing" ->
             <<<<"Answer:">>, <<"see", "beta.pdf", "p1">>>>
      [] OTHER -> <<<<"Answer:">>, <<"no", "information", "on", "fees">>>>

\* The keys in the order the model lists them.
KeyOrder == [i \in 1..MaxPage |-> <<"docs/alpha.pdf", i>>] \o <<<<"beta.pdf", 1>>>>

CiteLine(key) == <<"-", Basename(key[1]), "p" \o ToString(key[2])>>

CiteLines(cites) ==
    LET listed == SelectSeq(KeyOrder, LAMBDA k : k \in cites)
    IN  [i \in 1..Len(listed) |-> CiteLine(listed[i])]

StatusLines(form) ==
    CASE form = "Complete" -> <<<<"Status:", "Complete", "information">>>>
      [] form = "Partial" -> <<<<"Status:", "Partial", "information">>>>
      [] form = "No" -> <<<<"Status:", "No", "information">>>>
      [] form = "CompleteBelow" -> <<<<"Status:">>, <<"-", "Complete", "information">>>>
      [] form = "PartialBelow" -> <<<<"Status:">>, <<"Partial", "information">>>>
      [] form = "PartialUpper" -> <<<<"STATUS:", "PARTIAL", "INFORMATION">>>>
      [] form = "NoUpper" -> <<<<"STATUS:", "NO", "INFORMATION">>>>
      [] OTHER -> <<>>

\* The three-section output of the completion service (the format of
\* get_system_prompt), as text.
AnswerText(body, cites, form) ==
    BodyLines(body) \o <<<<"Sources:">>>> \o CiteLines(cites) \o StatusLines(form)

CiteChoices == {c \in SUBSET AllKeys : Cardinality(c) <= MaxCites}

\* The answers the service gives in the model: every citation under the
\* verdicts that keep citations, and one citation or none under the others.
FewCites == {{}, {<<"docs/alpha.pdf", 1>>}}

AnswerSet ==
    {AnswerText("plain", c, f) : c \in CiteChoices, f \in {"Complete", "Partial"}}
    \cup {AnswerText("plain", c, f) : c \in FewCites,
                                      f \in {"No", "CompleteBelow", "missing"}}
    \cup {AnswerText("hedged", {<<"docs/alpha.pdf", 1>>}, f) :
             f \in {"Complete", "Partial"}}

\* ---------------------------------------------------------- credential pool

KeyIndexes == 0..(NumKeys - 1)

\* GROQ_API_KEYS[i]: the credentials are told apart by a number, None is 0.
GROQ_API_KEYS(i) == i + 1

\* A number of seconds as a span of the clock.
Seconds(n) == n * TicksPerSecond

\* int(x) of a span of the clock in seconds: the fraction is dropped.
WholeSeconds(ticks) ==
    IF ticks >= 0 THEN ticks \div TicksPerSecond ELSE 0 - ((0 - ticks) \div TicksPerSecond)

\* min(GROQ_RATE_LIMIT_UNTIL)
MinUntil(until) == CHOOSE m \in {until[i] : i \in KeyIndexes} :
                      \A i \in KeyIndexes : m <= until[i]

\* A scan that gives up when the credential at the cursor is rate limited.
ScanOnce(tries, cursor, until, t) ==
    IF t >= until[cursor]
    THEN [key |-> GROQ_API_KEYS(cursor), info |-> cursor,
          cursor |-> (cursor + 1) % NumKeys]
    ELSE [key |-> None, info |-> Max(1, WholeSeconds(MinUntil(until) - t)),
          cursor |-> cursor]

\* The loop of get_next_available_key, tries passes left, run by one thread:
\* the credential (None if all are limited), its index (or the wait) and
\* current_key_index as the call leaves it.
RECURSIVE ScanKeys(_, _, _, _)
ScanKeys(tries, cursor, until, t) ==
    IF tries = 0
    THEN [key |-> None, info |-> Max(1, WholeSeconds(MinUntil(until) - t)),
          cursor |-> cursor]
    ELSE IF t >= until[cursor]
    THEN [key |-> GROQ_API_KEYS(cursor), info |-> cursor,
          cursor |-> (cursor + 1) % NumKeys]
    ELSE ScanKeys(tries - 1, (cursor + 1) % NumKeys, until, t)

\* A lookup that takes the credential at the cursor, rate limited or not.
KeyAtCursor(cursor, until, t) ==
    [key |-> GROQ_API_KEYS(cursor), info |-> cursor, cursor |-> (cursor + 1) % NumKeys]

get_next_available_key(cursor, until, t) == ScanKeys(NumKeys, cursor, until, t)

\* --------------------------------------------------------- client messages

AllLimitedText(info) ==
    <<<<"All", "API", "keys", "are", "rate", "limited.", "Please", "wait",
        ToString(info), "seconds.">>>>
PayloadText == <<<<"Payload", "too", "large">>>>
HttpErrorText == <<<<"HTTP", "Error:", "500", "Server", "Error">>>>
NoInformationText ==
    <<<<"No", "information", "available", "in", "the", "documents.">>>>

\* An orchestrator for which every failed call is final.
EveryFailureReturns(answer) ==
    IF TextHasPhrase(answer, <<"Rate", "limited">>) THEN "return_133"
    ELSE "return_137"

\* What answer_question does with a failed call (API.py 131-137): the line it
\* returns from, or "continue".
FailureBranch(answer) ==
    IF TextHasPhrase(answer, <<"Rate", "limited">>) THEN "return_133"
    ELSE IF TextHasPhrase(answer, <<"Payload", "too", "large">>) THEN "continue"
    ELSE "return_137"

\* The test of API.py 78.
NoChunksEither(all_text, all_tables) == all_text = <<>> \/ all_tables = <<>>

NoChunksFound(all_text, all_tables) == all_text = <<>> /\ all_tables = <<>>

\* A loop that takes no notice of the verdict.
StopsNever(is_complete) == FALSE

\* The test of API.py 150.
StopsWhenComplete(is_complete) == is_complete

\* ------------------------------------------------------------------- state

VARIABLES
    pc,                        \* where answer_question stands
    all_text_chunks, all_table_chunks,
    cumulative_cited_sources, iteration, text_index, table_index,
    last_answer, used_pages, source_expansion_steps,
    new_text_batch, new_table_batch, is_expanding,
    current_iteration_chunks,
    api_key, info,             \* locals of call_groq_model
    result,                    \* what answer_question returned
    current_key_index, GROQ_RATE_LIMIT_UNTIL, now,
    faults,                    \* 429 and 413 responses so far
    rejected,                  \* the selection the last 413 rejected, if any
    cited_log,                 \* the keys the answers cited, in order of first citation
    thread,                    \* the calls of get_next_available_key that run together
    context_parts,             \* the entries prepare_iteration_context built
    max_tokens,
    context,                   \* the entries of the context it returned
    \* the locals of the last call of process_iteration_result
    is_insufficient, is_incomplete, cited_in_this_iteration,
    \* a call of get_surrounding_pages_smart: arguments, queries, result
    retrieval

loopVars == <<pc, all_text_chunks, all_table_chunks, cumulative_cited_sources,
              iteration, text_index, table_index, last_answer, used_pages,
              source_expansion_steps, new_text_batch, new_table_batch,
              is_expanding, current_iteration_chunks, api_key, info, result,
              faults, rejected, cited_log>>
poolVars == <<current_key_index, GROQ_RATE_LIMIT_UNTIL, now>>
assemblerVars == <<context_parts, max_tokens, context>>
classifierVars == <<is_insufficient, is_incomplete, cited_in_this_iteration>>
vars == <<loopVars, poolVars, thread, assemblerVars, classifierVars, retrieval>>

\* 429 and 413 responses the service gives to one question: enough to find
\* every credential rate limited.
MaxFaults == NumKeys

\* Two questions of two sessions run call_groq_model on the one pool.
Threads == {"q1", "q2"}

\* The locals of one call: where it stands, now (API.py 259), the rounds of
\* the for loop done, the index whose timestamp line 263 read, key and index
\* (264, 265), and the value read for an update of current_key_index.
Idle == [at |-> "idle", now |-> 0, tries |-> 0, checked |-> 0,
         key |-> None, index |-> 0, read |-> 0]

NoContext == [entries |-> <<>>, set |-> FALSE]

NoRetrieval == [cited_chunks |-> <<>>, pages_range |-> 0, queried |-> <<>>,
                surrounding |-> <<>>, set |-> FALSE]

NoResult == [answer |-> <<>>, sources |-> <<>>, set |-> FALSE]
Returned(text, sources) == [answer |-> text, sources |-> sources, set |-> TRUE]

\* An exit that tidies the text the way the complete exit does.
LastSeenStripped(answer, sources) ==
    Returned(remove_status_from_answer(answer), sources)

\* API.py 165: return last_answer, cumulative_cited_sources
LastSeen(answer, sources) == Returned(answer, sources)
NoSelection == [text |-> <<>>, tables |-> <<>>, set |-> FALSE]

Returns == {"return_79", "return_133", "return_137", "return_155", "return_165"}

Init ==
    /\ pc = "start"
    /\ \E n \in 0..Len(TextRanking) : all_text_chunks = SubSeq(TextRanking, 1, n)
    /\ all_table_chunks \in {<<>>, TableRanking}
    /\ cumulative_cited_sources = <<>>
    /\ iteration = 1
    /\ text_index = 0
    /\ table_index = 0
    /\ last_answer = <<>>
    /\ used_pages = {}
    /\ source_expansion_steps = [s \in Sources |-> 0]
    /\ new_text_batch = <<>>
    /\ new_table_batch = <<>>
    /\ is_expanding = FALSE
    /\ current_iteration_chunks = <<>>
    /\ api_key = None
    /\ info = 0
    /\ result = NoResult
    /\ current_key_index = 0
    /\ GROQ_RATE_LIMIT_UNTIL = [i \in KeyIndexes |-> 0]
    /\ now = 0
    /\ faults = 0
    /\ rejected = NoSelection
    /\ cited_log = <<>>
    /\ thread = [t \in Threads |-> Idle]
    /\ context_parts = <<>>
    /\ max_tokens = MAX_CONTEXT_TOKENS
    /\ context = NoContext
    /\ is_insufficient = FALSE
    /\ is_incomplete = FALSE
    /\ cited_in_this_iteration = <<>>
    /\ retrieval = NoRetrieval

\* time.time() is read at API.py 259 and 331: in the model the clock moves
\* between a failed request and the next read.
Elapse(dt) == Min(now + Seconds(dt), Seconds(MaxTime))

\* API.py 73-94: the search and the early return.
Search ==
    /\ pc = "start"
    /\ IF NoChunksFound(all_text_chunks, all_table_chunks)
       THEN /\ pc' = "return_79"
            /\ result' = Returned(NoInformationText, <<>>)
       ELSE /\ pc' = "plan"
            /\ UNCHANGED result
    /\ UNCHANGED <<thread, assemblerVars, classifierVars, retrieval, all_text_chunks, all_table_chunks, cumulative_cited_sources,
                   iteration, text_index, table_index, last_answer, used_pages,
                   source_expansion_steps, new_text_batch, new_table_batch,
                   is_expanding, current_iteration_chunks, api_key, info,
                   faults, rejected, cited_log, poolVars>>

\* API.py 99-127: the planner call, the break, the context.
Plan ==
    /\ pc = "plan"
    /\ \E b \in {get_next_chunk_batch(iteration, all_text_chunks, all_table_chunks,
                                       text_index, table_index,
                                       cumulative_cited_sources, last_answer,
                                       used_pages, source_expansion_steps)} :
           /\ new_text_batch' = b.text
           /\ new_table_batch' = b.tables
           /\ is_expanding' = b.is_expanding
           /\ used_pages' = b.used
           /\ source_expansion_steps' = b.steps
           /\ IF b.text = <<>> /\ b.tables = <<>>
              THEN /\ pc' = "return_165"
                   /\ result' = LastSeen(last_answer, cumulative_cited_sources)
                   /\ UNCHANGED <<current_iteration_chunks, context_parts, context>>
              ELSE /\ pc' = "select"
                   /\ context_parts' = context_entries(cumulative_cited_sources,
                                                       b.text, b.tables)
                   /\ \E p \in {prepare_iteration_context(cumulative_cited_sources,
                                       b.text, b.tables, max_tokens)} :
                          /\ context' = [entries |-> p.context, set |-> TRUE]
                          /\ current_iteration_chunks' = p.chunks
                   /\ UNCHANGED result
    /\ UNCHANGED <<thread, max_tokens, classifierVars, retrieval, all_text_chunks, all_table_chunks, cumulative_cited_sources,
                   iteration, text_index, table_index, last_answer,
                   api_key, info, faults, rejected, cited_log, poolVars>>

FailedKeepsSources(answer) ==
    LET branch == FailureBranch(answer)
    IN  IF branch = "continue"
        THEN /\ pc' = "plan"
             /\ rejected' = [text |-> new_text_batch, tables |-> new_table_batch,
                             set |-> TRUE]
             /\ UNCHANGED result
        ELSE /\ pc' = branch
             /\ result' = Returned(answer, cumulative_cited_sources)
             /\ UNCHANGED rejected

\* What answer_question does when call_groq_model returns (answer, False).
Failed(answer) ==
    LET branch == FailureBranch(answer)
    IN  IF branch = "continue"
        THEN /\ pc' = "plan"
             /\ rejected' = [text |-> new_text_batch, tables |-> new_table_batch,
                             set |-> TRUE]
             /\ UNCHANGED result
        ELSE /\ pc' = branch
             /\ result' = Returned(answer, <<>>)
             /\ UNCHANGED rejected

\* API.py 292-297: call_groq_model takes a credential, or gives up.
SelectKey ==
    /\ pc = "select"
    /\ \E k \in {get_next_available_key(current_key_index, GROQ_RATE_LIMIT_UNTIL, now)} :
           /\ current_key_index' = k.cursor
           /\ IF k.key = None
              THEN /\ Failed(AllLimitedText(k.info))
                   /\ UNCHANGED <<api_key, info>>
              ELSE /\ pc' = "request"
                   /\ api_key' = k.key
                   /\ info' = k.info
                   /\ UNCHANGED <<result, rejected>>
    /\ UNCHANGED <<thread, assemblerVars, classifierVars, retrieval, all_text_chunks, all_table_chunks, cumulative_cited_sources,
                   iteration, text_index, table_index, last_answer, used_pages,
                   source_expansion_steps, new_text_batch, new_table_batch,
                   is_expanding, current_iteration_chunks, faults, cited_log,
                   GROQ_RATE_LIMIT_UNTIL, now>>

\* Seconds a rejected request may take on the clock of the model.
ElapsedChoices == {0, 1}

CursorStays(index, expanding, batch_size) == index

CursorMovesAnyway(index, expanding, batch_size) == index + batch_size

\* The cursors after a round that goes on (API.py 158-160).
AdvanceCursor(index, expanding, batch_size) ==
    IF ~expanding THEN index + batch_size ELSE index

\* The value of the Status section of a text, lower-cased: what follows
\* "Status:" on its line or, if nothing does, the next line that is not blank,
\* without its bullet; <<>> if the text has no Status line.
StatusMarker(text) ==
    LET at == {n \in 1..Len(text) : IsStatusLine(text[n])}
    IN  IF at = {} THEN <<>>
        ELSE LET n == CHOOSE m \in at : \A k \in at : m <= k
                 below == SelectSeq(SubSeq(text, n + 1, Len(text)),
                                    LAMBDA line : line # <<>>)
             IN  IF Len(text[n]) > 1 THEN Tail(LowerLine(text[n]))
                 ELSE IF below = <<>> THEN <<>>
                 ELSE StripBullets(LowerLine(below[1]))

\* The keys of the chunks of the context that an answer cites, if its Status
\* section says partial or complete information.
CitedKeys(answer, chunks) ==
    IF StatusMarker(answer) \in {<<"partial", "information">>,
                                 <<"complete", "information">>}
    THEN CHOOSE v \in {[i \in 1..Len(c) |-> Key(c[i])] :
                       c \in {extract_used_sources_from_answer(answer, chunks)}} :
             TRUE
    ELSE <<>>

RECURSIVE LogKeys(_, _)
LogKeys(log, keys) ==
    IF keys = <<>> THEN log
    ELSE IF \E i \in 1..Len(log) : log[i] = Head(keys) THEN LogKeys(log, Tail(keys))
    ELSE LogKeys(Append(log, Head(keys)), Tail(keys))

\* Rounds a question can take on this corpus: the loop stops before.
MaxIterations == Cardinality(AllKeys) + 2

\* API.py 322-324 and 139-162: the service answers, the round is processed.
RespondOk(answer) ==
    /\ pc = "request"
    /\ iteration < MaxIterations
    /\ last_answer' = answer
    /\ \E keys \in {CitedKeys(answer, current_iteration_chunks)} :
           cited_log' = LogKeys(cited_log, keys)
    /\ rejected' = NoSelection
    /\ api_key' = None
    /\ info' = 0
    /\ \E r \in {process_iteration_result(answer, current_iteration_chunks,
                                           cumulative_cited_sources, used_pages)} :
           /\ cumulative_cited_sources' = r.cited
           /\ used_pages' = r.used
           /\ is_insufficient' = r.is_insufficient
           /\ is_incomplete' = r.is_incomplete
           /\ cited_in_this_iteration' = r.cited_in_this_iteration
           /\ IF StopsWhenComplete(r.is_complete)
              THEN /\ current_key_index' =
                          get_next_available_key(current_key_index,
                                                 GROQ_RATE_LIMIT_UNTIL, now).cursor
                   /\ result' = Returned(remove_status_from_answer(answer), r.cited)
                   /\ pc' = "return_155"
                   /\ UNCHANGED <<text_index, table_index, iteration>>
              ELSE /\ text_index' = AdvanceCursor(text_index, is_expanding,
                                                  API_TEXT_CHUNKS_PER_ITERATION)
                   /\ table_index' = AdvanceCursor(table_index, is_expanding,
                                                   API_TABLE_CHUNKS_PER_ITERATION)
                   /\ iteration' = iteration + 1
                   /\ pc' = "plan"
                   /\ UNCHANGED <<result, current_key_index>>
    /\ UNCHANGED <<thread, assemblerVars, retrieval, all_text_chunks, all_table_chunks, source_expansion_steps,
                   new_text_batch, new_table_batch, is_expanding,
                   current_iteration_chunks, faults,
                   GROQ_RATE_LIMIT_UNTIL, now>>

\* API.py 328-332: a 429 marks the credential and the call goes round.
RespondRateLimited(wait_time, dt) ==
    /\ pc = "request"
    /\ faults < MaxFaults
    /\ faults' = faults + 1
    /\ now' = Elapse(dt)
    /\ GROQ_RATE_LIMIT_UNTIL' = [GROQ_RATE_LIMIT_UNTIL EXCEPT ![info] = now' + Seconds(wait_time)]
    /\ pc' = "select"
    /\ UNCHANGED <<thread, assemblerVars, classifierVars, retrieval, all_text_chunks, all_table_chunks, cumulative_cited_sources,
                   iteration, text_index, table_index, last_answer, used_pages,
                   source_expansion_steps, new_text_batch, new_table_batch,
                   is_expanding, current_iteration_chunks, api_key, info, result,
                   rejected, cited_log, current_key_index>>

\* API.py 335-336 and 134-135: a 413 sends the loop back to the planner.
RespondTooLarge ==
    /\ pc = "request"
    /\ faults < MaxFaults
    /\ faults' = faults + 1
    /\ Failed(PayloadText)
    /\ api_key' = None
    /\ info' = 0
    /\ UNCHANGED <<thread, assemblerVars, classifierVars, retrieval, all_text_chunks, all_table_chunks, cumulative_cited_sources,
                   iteration, text_index, table_index, last_answer, used_pages,
                   source_expansion_steps, new_text_batch, new_table_batch,
                   is_expanding, current_iteration_chunks, cited_log, poolVars>>

\* API.py 338 and 136-137: any other HTTP error ends the question.
RespondHttpError ==
    /\ pc = "request"
    /\ Failed(HttpErrorText)
    /\ api_key' = None
    /\ info' = 0
    /\ UNCHANGED <<thread, assemblerVars, classifierVars, retrieval, all_text_chunks, all_table_chunks, cumulative_cited_sources,
                   iteration, text_index, table_index, last_answer, used_pages,
                   source_expansion_steps, new_text_batch, new_table_batch,
                   is_expanding, current_iteration_chunks, faults, cited_log,
                   poolVars>>

\* API.py 340-342: any other exception: sleep and go round.
RespondTransportError ==
    /\ pc = "request"
    /\ now' = Elapse(TRANSPORT_SLEEP)
    /\ pc' = "select"
    /\ UNCHANGED <<thread, assemblerVars, classifierVars, retrieval, all_text_chunks, all_table_chunks, cumulative_cited_sources,
                   iteration, text_index, table_index, last_answer, used_pages,
                   source_expansion_steps, new_text_batch, new_table_batch,
                   is_expanding, current_iteration_chunks, api_key, info, result,
                   faults, rejected, cited_log, current_key_index,
                   GROQ_RATE_LIMIT_UNTIL>>

Respond ==
    \/ \E answer \in AnswerSet : RespondOk(answer)
    \/ \E wait_time \in {DEFAULT_WAIT_TIME, RetryAfterHint}, dt \in ElapsedChoices :
          RespondRateLimited(wait_time, dt)
    \/ RespondTooLarge
    \/ RespondHttpError
    \/ RespondTransportError

Next == Search \/ Plan \/ SelectKey \/ Respond

Spec == Init /\ [][Next]_vars

\* The service answers every request: no 429, 413, HTTP or transport error.
OkNext == Search \/ Plan \/ SelectKey \/ \E answer \in AnswerSet : RespondOk(answer)

OkSpec == Init /\ [][OkNext]_vars /\ WF_vars(OkNext)

\* The service answers or fails with a transport error; the program keeps running.
TransportNext ==
    \/ Search
    \/ Plan
    \/ SelectKey
    \/ \E answer \in AnswerSet : RespondOk(answer)
    \/ RespondTransportError

TransportSpec == Init /\ [][TransportNext]_vars /\ WF_vars(TransportNext)

\* ------------------------------------------- the pool under two questions

\* Every read and every write of current_key_index and GROQ_RATE_LIMIT_UNTIL
\* is a step of its own: the module takes no lock (API.py 257-274, 328-332).

QuestionVars == <<pc, all_text_chunks, all_table_chunks, cumulative_cited_sources,
                  iteration, text_index, table_index, last_answer, used_pages,
                  source_expansion_steps, new_text_batch, new_table_batch,
                  is_expanding, current_iteration_chunks, api_key, info, result,
                  rejected, cited_log, assemblerVars, classifierVars, retrieval>>

Move(t, fields) == thread' = [thread EXCEPT ![t] = fields @@ thread[t]]

\* API.py 259: now = time.time(), and the for loop starts.
T_Enter(t) ==
    /\ thread[t].at \in {"idle", "again"}
    /\ Move(t, [at |-> "check", now |-> now, tries |-> 0])
    /\ UNCHANGED <<QuestionVars, faults, poolVars>>

\* API.py 262-263: the loop test, and the test of the timestamp at the cursor.
T_Check(t) ==
    /\ thread[t].at = "check"
    /\ IF thread[t].tries = NumKeys
       THEN Move(t, [at |-> "all_limited", key |-> None])
       ELSE IF thread[t].now >= GROQ_RATE_LIMIT_UNTIL[current_key_index]
       THEN Move(t, [at |-> "line_264", checked |-> current_key_index])
       ELSE Move(t, [at |-> "line_269"])
    /\ UNCHANGED <<QuestionVars, faults, poolVars>>

\* API.py 264: key = GROQ_API_KEYS[current_key_index]
T_ReadKey(t) ==
    /\ thread[t].at = "line_264"
    /\ Move(t, [at |-> "line_265", key |-> GROQ_API_KEYS(current_key_index)])
    /\ UNCHANGED <<QuestionVars, faults, poolVars>>

\* API.py 265: index = current_key_index
T_ReadIndex(t) ==
    /\ thread[t].at = "line_265"
    /\ Move(t, [at |-> "line_266", index |-> current_key_index])
    /\ UNCHANGED <<QuestionVars, faults, poolVars>>

\* API.py 266 and 269, the read: current_key_index + 1
T_ReadCursor(t) ==
    /\ thread[t].at \in {"line_266", "line_269"}
    /\ Move(t, [at |-> IF thread[t].at = "line_266" THEN "store_266" ELSE "store_269",
                 read |-> current_key_index])
    /\ UNCHANGED <<QuestionVars, faults, poolVars>>

\* API.py 266-267, the write, and the return of (key, index).
T_StoreCursor(t) ==
    /\ thread[t].at = "store_266"
    /\ current_key_index' = (thread[t].read + 1) % NumKeys
    /\ Move(t, [at |-> "request"])
    /\ UNCHANGED <<QuestionVars, faults, GROQ_RATE_LIMIT_UNTIL, now>>

\* API.py 269, the write: the cursor moves past a limited credential.
T_Skip(t) ==
    /\ thread[t].at = "store_269"
    /\ current_key_index' = (thread[t].read + 1) % NumKeys
    /\ Move(t, [at |-> "check", tries |-> thread[t].tries + 1])
    /\ UNCHANGED <<QuestionVars, faults, GROQ_RATE_LIMIT_UNTIL, now>>

\* API.py 322-324: the request succeeds and the call returns.
T_Ok(t) ==
    /\ thread[t].at = "request"
    /\ Move(t, [at |-> "done"])
    /\ UNCHANGED <<QuestionVars, faults, poolVars>>

\* API.py 328-332: a 429 is recorded at the index the call holds.
T_RateLimited(t, wait_time, dt) ==
    /\ thread[t].at = "request"
    /\ faults < MaxFaults
    /\ faults' = faults + 1
    /\ now' = Elapse(dt)
    /\ GROQ_RATE_LIMIT_UNTIL' =
          [GROQ_RATE_LIMIT_UNTIL EXCEPT ![thread[t].index] = now' + Seconds(wait_time)]
    /\ Move(t, [at |-> "again"])
    /\ UNCHANGED <<QuestionVars, current_key_index>>

RaceInit ==
    /\ Init
    /\ all_text_chunks = TextRanking
    /\ all_table_chunks = TableRanking

RaceNext ==
    \E t \in Threads :
        \/ T_Enter(t)
        \/ T_Check(t)
        \/ T_ReadKey(t)
        \/ T_ReadIndex(t)
        \/ T_ReadCursor(t)
        \/ T_StoreCursor(t)
        \/ T_Skip(t)
        \/ T_Ok(t)
        \/ \E wait_time \in {DEFAULT_WAIT_TIME, RetryAfterHint}, dt \in ElapsedChoices :
              T_RateLimited(t, wait_time, dt)

RaceSpec == RaceInit /\ [][RaceNext]_vars

\* ------------------------------------------------- the planner on its own

\* get_next_chunk_batch called again and again on the full pools, with any
\* round number, cursors, cited sources and last answer; used_pages and
\* source_expansion_steps are the objects the calls share.

\* Both cursors start at 0 and move together by the same amount.
PlannerCursors == {0, 2, 4, 6}

PlannerCitable ==
    {Chunk("docs/alpha.pdf", 1, "text"), Chunk("docs/alpha.pdf", MaxPage, "text"),
     Chunk("beta.pdf", 1, "text")}

PlannerCited ==
    {<<>>} \cup {<<c>> : c \in PlannerCitable}
           \cup {p \in PlannerCitable \X PlannerCitable : p[1] # p[2]}

PlannerAnswers ==
    {AnswerText("plain", {}, "Partial"), AnswerText("plain", {}, "Complete")}

\* process_iteration_result has put the keys of the cited sources in used_pages.
UsedWith(cited) == used_pages \cup {Key(cited[i]) : i \in 1..Len(cited)}

PlannerCall(iter, cursor, cited, answer) ==
    /\ \A source \in Sources : source_expansion_steps[source] < MaxSteps
    /\ iteration' = iter
    /\ text_index' = cursor
    /\ table_index' = cursor
    /\ cumulative_cited_sources' = cited
    /\ last_answer' = answer
    /\ \E b \in {get_next_chunk_batch(iter, all_text_chunks, all_table_chunks,
                                       cursor, cursor, cited, answer,
                                       UsedWith(cited), source_expansion_steps)} :
           /\ new_text_batch' = b.text
           /\ new_table_batch' = b.tables
           /\ is_expanding' = b.is_expanding
           /\ used_pages' = b.used
           /\ source_expansion_steps' = b.steps
    /\ UNCHANGED <<pc, thread, assemblerVars, classifierVars, retrieval, all_text_chunks, all_table_chunks,
                   current_iteration_chunks, api_key, info, result, faults,
                   rejected, cited_log, poolVars>>

PlannerInit ==
    /\ Init
    /\ all_text_chunks = TextRanking
    /\ all_table_chunks = TableRanking

PlannerNext ==
    \E iter \in {1, 2}, cursor \in PlannerCursors, cited \in PlannerCited,
       answer \in PlannerAnswers :
        PlannerCall(iter, cursor, cited, answer)

PlannerSpec == PlannerInit /\ [][PlannerNext]_vars

\* ---------------------------------------------------- trimming on its own

\* trim_context_to_fit called once on any list of up to MaxParts entries of a
\* few lengths, with any budget up to MaxBudget tokens.
TrimChars == {0, 4, 9}

TrimEntries ==
    {[chunk |-> Chunk("docs/alpha.pdf", 1, "text"), marker |-> "NEW_TEXT", chars |-> n] :
        n \in TrimChars}

TrimLists == UNION {[1..n -> TrimEntries] : n \in 0..MaxParts}

TrimInput(parts, budget) ==
    /\ context_parts = <<>> /\ max_tokens = MAX_CONTEXT_TOKENS /\ ~context.set
    /\ context_parts' = parts
    /\ max_tokens' = budget
    /\ UNCHANGED <<loopVars, poolVars, thread, classifierVars, retrieval, context>>

TrimCall ==
    /\ ~context.set
    /\ context' = [entries |-> trim_context_to_fit(context_parts, max_tokens),
                   set |-> TRUE]
    /\ UNCHANGED <<loopVars, poolVars, thread, classifierVars, retrieval, context_parts, max_tokens>>

TrimInit ==
    /\ Init
    /\ all_text_chunks = TextRanking
    /\ all_table_chunks = TableRanking

TrimNext ==
    \/ \E parts \in TrimLists, budget \in 0..MaxBudget : TrimInput(parts, budget)
    \/ TrimCall

TrimSpec == TrimInit /\ [][TrimNext]_vars

\* --------------------------------------------------- assembling on its own

\* prepare_iteration_context called once on any three lists of up to MaxBatch
\* chunks each, repeated chunks included, or with all the corpus as the
\* sources cited so far (more than max_used_sources of them).
TextChunks == {CollectionSeq[i] : i \in {j \in 1..Len(CollectionSeq) : ~IsTable(CollectionSeq[j])}}
TableChunks == {CollectionSeq[i] : i \in {j \in 1..Len(CollectionSeq) : IsTable(CollectionSeq[j])}}

ListsOf(chunks) == UNION {[1..n -> chunks] : n \in 0..MaxBatch}

AssembleCited ==
    ListsOf({Chunk("docs/alpha.pdf", 1, "text"), Chunk("docs/alpha.pdf", 2, "table"),
             Chunk("beta.pdf", 1, "text")})
    \cup {CollectionSeq}

AssembleText == ListsOf({c \in TextChunks : c.source = "docs/alpha.pdf" /\ c.page <= 2})
AssembleTables == ListsOf({c \in TableChunks : c.type = "table"})

AssembleInput(cited, new_text, new_tables) ==
    /\ cumulative_cited_sources = <<>> /\ new_text_batch = <<>>
    /\ new_table_batch = <<>> /\ ~context.set
    /\ cumulative_cited_sources' = cited
    /\ new_text_batch' = new_text
    /\ new_table_batch' = new_tables
    /\ UNCHANGED <<pc, all_text_chunks, all_table_chunks, iteration, text_index,
                   table_index, last_answer, used_pages, source_expansion_steps,
                   is_expanding, current_iteration_chunks, api_key, info, result,
                   faults, rejected, cited_log, poolVars, thread, assemblerVars,
                   classifierVars, retrieval>>

AssembleCall ==
    /\ ~context.set
    /\ context_parts' = context_entries(cumulative_cited_sources,
                                        new_text_batch, new_table_batch)
    /\ \E p \in {prepare_iteration_context(cumulative_cited_sources, new_text_batch,
                                            new_table_batch, max_tokens)} :
           /\ context' = [entries |-> p.context, set |-> TRUE]
           /\ current_iteration_chunks' = p.chunks
    /\ UNCHANGED <<pc, all_text_chunks, all_table_chunks, cumulative_cited_sources,
                   iteration, text_index, table_index, last_answer, used_pages,
                   source_expansion_steps, new_text_batch, new_table_batch,
                   is_expanding, api_key, info, result, faults, rejected,
                   cited_log, poolVars, thread, max_tokens, classifierVars, retrieval>>

AssembleInit ==
    /\ Init
    /\ all_text_chunks = TextRanking
    /\ all_table_chunks = TableRanking

AssembleNext ==
    \/ \E cited \in AssembleCited, new_text \in AssembleText,
          new_tables \in AssembleTables : AssembleInput(cited, new_text, new_tables)
    \/ AssembleCall

AssembleSpec == AssembleInit /\ [][AssembleNext]_vars

\* --------------------------------------------- the classifier on its own

\* The classifier's three functions applied once to any text of the format
\* of the service, with any wording of the body and any form of the Status
\* section, and to any list of candidate chunks.
ClassifyBodies == {"plain", "hedged", "partly", "canned", "cannedClean", "citing"}
ClassifyForms == {"Complete", "Partial", "No", "CompleteBelow", "PartialBelow",
                  "PartialUpper", "NoUpper", "missing"}

\* Texts with no Sources section, with a citation on the line of the marker,
\* with a two-digit page, with a second marker, in capitals.
SourcesTexts ==
    {BodyLines("plain"),
     BodyLines("citing") \o StatusLines("Complete"),
     <<<<"Sources:">>, <<"-", "alpha.pdf", "p" \o ToString(MaxPage + 9)>>>>,
     <<<<"Sources:", "alpha.pdf", "p2">>, <<>>, <<"-", "Beta.pdf", "p1", "-">>>>,
     BodyLines("citing") \o <<<<"SOURCES:">>, <<"alpha.pdf", "p3">>,
                                <<"Sources:">>, <<"alpha", "p1">>>>,
     <<<<"Sources:">>, <<"-", "alpha.pdf">>, <<"-", "p1">>>>}

ClassifyTexts ==
    {AnswerText(b, c, f) : b \in ClassifyBodies, c \in FewCites, f \in ClassifyForms}
    \cup SourcesTexts

ClassifyCandidates ==
    {<<>>, TextRanking, TableRanking,
     <<Chunk("docs/alpha.pdf", 1, "text"), Chunk("beta.pdf", 1, "table")>>,
     <<Chunk("docs/alpha.pdf", MaxPage + 10, "text"), Chunk("docs/alpha.pdf", MaxPage + 9, "text"),
       Chunk("docs/alpha.pdf", 2, "text")>>,
     <<Chunk("", 1, "text"), Chunk("beta.pdf", None, "text"), Chunk("beta.pdf", 1, "text")>>}

Classify(text, used_chunks) ==
    /\ pc = "start"
    /\ last_answer = <<>>
    /\ all_text_chunks = TextRanking /\ all_table_chunks = TableRanking
    /\ last_answer' = text
    /\ current_iteration_chunks' = used_chunks
    /\ is_insufficient' = check_if_answer_insufficient(text)
    /\ is_incomplete' = check_if_answer_incomplete(text)
    /\ cited_in_this_iteration' = extract_used_sources_from_answer(text, used_chunks)
    /\ UNCHANGED <<pc, all_text_chunks, all_table_chunks, cumulative_cited_sources,
                   iteration, text_index, table_index, used_pages,
                   source_expansion_steps, new_text_batch, new_table_batch,
                   is_expanding, api_key, info, result, faults, rejected,
                   cited_log, poolVars, thread, assemblerVars, retrieval>>

ClassifyNext ==
    \E text \in ClassifyTexts, used_chunks \in ClassifyCandidates :
        Classify(text, used_chunks)

ClassifySpec == Init /\ [][ClassifyNext]_vars

\* ------------------------------------------------- the lookup on its own

\* The pool as a question may find it: any cursor, any timestamps up to two
\* seconds past the observed clock, any instant of the observed clock.
PoolInstants == 0..Seconds(MaxTime)
PoolTimestamps == 0..Seconds(MaxTime + 2)

PoolInput(cursor, until, t) ==
    /\ pc = "start"
    /\ all_text_chunks = TextRanking /\ all_table_chunks = TableRanking
    /\ pc' = "select"
    /\ current_key_index' = cursor
    /\ GROQ_RATE_LIMIT_UNTIL' = until
    /\ now' = t
    /\ UNCHANGED <<all_text_chunks, all_table_chunks, cumulative_cited_sources,
                   iteration, text_index, table_index, last_answer, used_pages,
                   source_expansion_steps, new_text_batch, new_table_batch,
                   is_expanding, current_iteration_chunks, api_key, info, result,
                   faults, rejected, cited_log, thread, assemblerVars,
                   classifierVars, retrieval>>

PoolNext ==
    \/ \E cursor \in KeyIndexes, until \in [KeyIndexes -> PoolTimestamps],
          t \in PoolInstants : PoolInput(cursor, until, t)
    \/ SelectKey

PoolSpec == Init /\ [][PoolNext]_vars

\* ------------------------------------ a service that answers 429 every time

\* Requests of one question that the service answers with 429.
MaxRequests == NumKeys + 2

\* API.py 326-332 as in RespondRateLimited, for up to MaxRequests requests.
RateLimitedAgain(wait_time, dt) ==
    /\ pc = "request"
    /\ faults < MaxRequests
    /\ faults' = faults + 1
    /\ now' = Elapse(dt)
    /\ GROQ_RATE_LIMIT_UNTIL' = [GROQ_RATE_LIMIT_UNTIL EXCEPT ![info] = now' + Seconds(wait_time)]
    /\ pc' = "select"
    /\ UNCHANGED <<thread, assemblerVars, classifierVars, retrieval, all_text_chunks, all_table_chunks, cumulative_cited_sources,
                   iteration, text_index, table_index, last_answer, used_pages,
                   source_expansion_steps, new_text_batch, new_table_batch,
                   is_expanding, current_iteration_chunks, api_key, info, result,
                   rejected, cited_log, current_key_index>>

WaitChoices == {DEFAULT_WAIT_TIME, RetryAfterHint}

RateLimitNext ==
    \/ Search
    \/ Plan
    \/ SelectKey
    \/ \E wait_time \in WaitChoices, dt \in ElapsedChoices : RateLimitedAgain(wait_time, dt)

RateLimitSpec == Init /\ [][RateLimitNext]_vars

\* ------------------------------------------------------------------ claims

Running == pc \in {"plan", "select", "request"}

Verdict(answer) ==
    IsCompleteVerdict(check_if_answer_insufficient(answer),
                      check_if_answer_incomplete(answer))

\* The lines of a text before its first Status line, blank ends stripped.
BeforeStatus(text) ==
    LET at == {n \in 1..Len(text) : IsStatusLine(text[n])}
    IN  IF at = {} THEN StripText(text)
        ELSE StripText(SubSeq(text, 1, (CHOOSE m \in at : \A k \in at : m <= k) - 1))

\* C1: an answer classified complete ends the question in its round: the loop
\* never goes on to a further planner call or request with such an answer as
\* its last one, and what is returned for a complete answer of iteration 1 is
\* the answer's text up to its Status section, with no Status line in it.
C1_CompleteReturnsAtOnce ==
    /\ (Running /\ last_answer # <<>>) => ~Verdict(last_answer)
    /\ (pc = "return_155" /\ iteration = 1) =>
          /\ Verdict(last_answer)
          /\ result.answer = BeforeStatus(last_answer)
          /\ \A n \in 1..Len(result.answer) : ~IsStatusLine(result.answer[n])
          /\ result.sources = cumulative_cited_sources

C1_Witness ==
    /\ pc = "return_155"
    /\ iteration = 1
    /\ StatusMarker(last_answer) = <<"complete", "information">>
    /\ result.answer # last_answer
    /\ result.sources # <<>>

KeysOf(chunks) == [i \in 1..Len(chunks) |-> Key(chunks[i])]

\* C2: when a question ends complete, every chunk an answer of the run cited
\* under a partial or complete status is in the returned list, exactly once,
\* and the chunks stand in the order of their first citation (A of round 1
\* before B of round 2).
C2_EveryCitationReturned ==
    pc = "return_155" =>
        /\ \A i \in 1..Len(cited_log) :
              Cardinality({j \in 1..Len(result.sources) :
                              Key(result.sources[j]) = cited_log[i]}) = 1
        /\ \A i1, i2 \in 1..Len(cited_log) : \A j1, j2 \in 1..Len(result.sources) :
              (/\ i1 < i2
               /\ Key(result.sources[j1]) = cited_log[i1]
               /\ Key(result.sources[j2]) = cited_log[i2]) => j1 < j2

\* C3: with no text chunk and no table chunk found, the question ends at the
\* early return with the "No information available" message and no sources;
\* the planner is never called and no credential is taken for a request.
C3_NoEvidenceReturnsAtOnce ==
    /\ (all_text_chunks = <<>> /\ all_table_chunks = <<>>) =>
          /\ pc \in {"start", "return_79"}
          /\ new_text_batch = <<>> /\ new_table_batch = <<>>
          /\ api_key = None /\ current_key_index = 0
          /\ pc = "return_79" => result = Returned(NoInformationText, <<>>)
    /\ pc = "return_79" => (all_text_chunks = <<>> /\ all_table_chunks = <<>>)

C3_Witness ==
    pc = "return_79" /\ result.set /\ result.sources = <<>>

\* C4: the loop returns terminal success only on an answer whose Status
\* section carries the "Complete information" marker; an answer with no
\* Status section is not reported complete.
C4_NoMarkerIsNotComplete ==
    pc = "return_155" => StatusMarker(last_answer) = <<"complete", "information">>

\* C6: after a 413 the planner's next selection differs from the rejected one.
C6_RetrySelectsDifferently ==
    (pc = "select" /\ rejected.set) =>
        <<new_text_batch, new_table_batch>> # <<rejected.text, rejected.tables>>

AllKeysLimited == \A i \in KeyIndexes : now < GROQ_RATE_LIMIT_UNTIL[i]

\* C8: a question that ends on a failed call returns the client's message
\* (the HTTP error, or the all-rate-limited message with the wait the pool
\* gives) and an empty source list, whatever was cited before; and with every
\* credential rate limited the call ends the question at once.
C8_FailureReturnsMessageOnly ==
    [][/\ pc' \in {"return_133", "return_137"} =>
            /\ result'.sources = <<>>
            /\ \/ pc = "request" /\ result'.answer = HttpErrorText
               \/ /\ pc = "select"
                  /\ AllKeysLimited
                  /\ result'.answer =
                        AllLimitedText(Max(1, WholeSeconds(MinUntil(GROQ_RATE_LIMIT_UNTIL) - now)))
       /\ (pc = "select" /\ AllKeysLimited) => pc' \in {"return_133", "return_137"}
      ]_vars

C8_Witness ==
    /\ pc \in {"return_133", "return_137"}
    /\ cumulative_cited_sources # <<>>
    /\ result.sources = <<>>
    /\ AllKeysLimited

\* C10: after the first round, a batch the planner returns with
\* is_expanding = FALSE holds no chunk whose key is in used_pages.
C10_AdvancingSkipsUsedPages ==
    (pc \in {"select", "request"} /\ iteration > 1 /\ ~is_expanding) =>
        \A c \in {new_text_batch[i] : i \in 1..Len(new_text_batch)}
                 \cup {new_table_batch[i] : i \in 1..Len(new_table_batch)} :
            Key(c) \notin used_pages

C10_Witness ==
    /\ pc = "select" /\ iteration > 1 /\ ~is_expanding
    /\ new_table_batch # <<>>
    /\ \E i \in (text_index + 1)..Len(all_text_chunks) :
          Key(all_text_chunks[i]) \in used_pages

\* C5: when every completion call returns ok, the question ends: complete,
\* exhausted, or with no evidence.
C5_LoopTerminates == <>(pc \in {"return_79", "return_155", "return_165"})

C5_Witness ==
    /\ pc = "return_165"
    /\ iteration >= 4
    /\ check_if_answer_incomplete(last_answer)

\* C7: with an endpoint that answers or fails with transport errors, the call
\* stops retrying and the question ends.
C7_TransportRetriesEnd == <>(pc \in Returns)

\* C9: however two questions interleave on the pool, current_key_index stays
\* an index of the pool, the credential a call returns is the one whose
\* timestamp the call tested, and the index returned with it is the index of
\* that credential, so that a 429 is recorded against the credential used.
C9_PoolSafeUnderInterleaving ==
    /\ current_key_index \in KeyIndexes
    /\ \A t \in Threads :
          thread[t].at = "request" =>
              /\ thread[t].key = GROQ_API_KEYS(thread[t].checked)
              /\ thread[t].key = GROQ_API_KEYS(thread[t].index)

\* The first chunk of a source in the cited sources.
FirstCited(cited, source) ==
    cited[CHOOSE i \in 1..Len(cited) :
              /\ cited[i].source = source
              /\ \A j \in 1..(i - 1) : cited[j].source # source]

\* The planner expands the source and the lookup of its pages finds a chunk.
ExpansionSucceeds(source, iter, cited, answer, steps) ==
    /\ iter > 1
    /\ check_if_answer_incomplete(answer)
    /\ \E i \in 1..Len(cited) : cited[i].source = source
    /\ get_surrounding_pages_smart(<<FirstCited(cited, source)>>,
                                   dynamic_range(steps[source])) # <<>>

\* C11: over any sequence of planner calls, a source's step goes up by one
\* exactly when its expansion finds a chunk, and otherwise stays; the range at
\* step 0, 1, 2, 3, 4 is 1, 2, 3, 4, 4; it never goes down, goes up by at most
\* one per expansion and never exceeds 4.
C11_RangeWidensToCap ==
    [][\A source \in Sources :
          LET before == source_expansion_steps[source]
              after == source_expansion_steps'[source]
          IN  /\ after = IF ExpansionSucceeds(source, iteration',
                                              cumulative_cited_sources',
                                              last_answer', source_expansion_steps)
                         THEN before + 1 ELSE before
              /\ dynamic_range(before) = IF before < 3 THEN before + 1 ELSE 4
              /\ dynamic_range(before) <= dynamic_range(after)
              /\ dynamic_range(after) <= dynamic_range(before) + 1
              /\ dynamic_range(after) <= MAX_SURROUNDING_RANGE
      ]_vars

C11_Witness ==
    /\ source_expansion_steps["docs/alpha.pdf"] = 5
    /\ source_expansion_steps["beta.pdf"] = 0
    /\ iteration > 1
    /\ check_if_answer_incomplete(last_answer)
    /\ \E i \in 1..Len(cumulative_cited_sources) :
          cumulative_cited_sources[i].source = "beta.pdf"

\* C12: what trim_context_to_fit returns is the list without some of its last
\* entries, the first entry is never removed, and its estimated token count is
\* at most the budget unless one entry is left that alone exceeds the budget.
C12_TrimFitsOrOneEntry ==
    context.set =>
        LET out == context.entries
        IN  /\ Len(out) <= Len(context_parts)
            /\ out = SubSeq(context_parts, 1, Len(out))
            /\ context_parts # <<>> => out # <<>>
            /\ \/ estimate_tokens(JoinedChars(out)) <= max_tokens
               \/ Len(out) = 1 /\ estimate_tokens(out[1].chars) > max_tokens

C12_Witness ==
    /\ context.set
    /\ Len(context_parts) = 3
    /\ Len(context.entries) = 2
    /\ estimate_tokens(JoinedChars(context_parts)) > max_tokens

\* The chunks handed to the assembler, in the order of its three loops.
Offered ==
    LastN(cumulative_cited_sources, max_used_sources)
        \o new_table_batch \o new_text_batch

\* The positions of Offered that hold the first chunk of their key.
FirstOfKey ==
    {i \in 1..Len(Offered) : \A j \in 1..(i - 1) : Key(Offered[j]) # Key(Offered[i])}

\* C13: prepare_iteration_context builds one entry, and returns one chunk,
\* for each key among the recalled sources, the new tables and the new text:
\* that of the first chunk with the key, in that order; the context holds at
\* most one entry of a key.
C13_OneEntryPerKey ==
    context.set =>
        /\ Len(context_parts) = Cardinality(FirstOfKey)
        /\ Len(current_iteration_chunks) = Cardinality(FirstOfKey)
        /\ \A k \in 1..Len(context_parts) :
              LET i == CHOOSE n \in FirstOfKey :
                           Cardinality({m \in FirstOfKey : m < n}) = k - 1
              IN  /\ context_parts[k].chunk = Offered[i]
                  /\ current_iteration_chunks[k] = Offered[i]
        /\ \A k, l \in 1..Len(context.entries) :
              Key(context.entries[k].chunk) = Key(context.entries[l].chunk) => k = l

C13_Witness ==
    /\ context.set
    /\ Len(new_text_batch) = 2
    /\ Key(new_text_batch[1]) = Key(new_text_batch[2])
    /\ \E i \in 1..Len(cumulative_cited_sources), j \in 1..Len(new_table_batch) :
          Key(cumulative_cited_sources[i]) = Key(new_table_batch[j])
    /\ Len(current_iteration_chunks) >= 2

\* The chunks whose entries are in the context text sent to the model.
ChunksInContext == [k \in 1..Len(context.entries) |-> context.entries[k].chunk]

\* C14: the chunk list returned by prepare_iteration_context is exactly the
\* chunks whose entries survived trimming, in the order they were appended, so
\* that a citation is only ever matched against a chunk the prompt contained.
C14_ChunksAreThoseInContext ==
    context.set => current_iteration_chunks = ChunksInContext

\* C15: no two entries of cumulative_cited_sources have the same key, and a
\* step changes the list only by appending to it.
C15_CitedGrowsWithoutRepeats ==
    [][/\ \A i, j \in 1..Len(cumulative_cited_sources') :
             Key(cumulative_cited_sources'[i]) = Key(cumulative_cited_sources'[j])
                 => i = j
       /\ Len(cumulative_cited_sources) <= Len(cumulative_cited_sources')
       /\ cumulative_cited_sources =
             SubSeq(cumulative_cited_sources', 1, Len(cumulative_cited_sources))]_vars

\* The last answer cited one chunk, the first of a list of two or more: it was
\* in the list already and was not added again.
C15_Witness ==
    /\ pc = "plan"
    /\ Len(cumulative_cited_sources) >= 2
    /\ ~check_if_answer_insufficient(last_answer)
    /\ extract_used_sources_from_answer(last_answer, current_iteration_chunks)
          = <<cumulative_cited_sources[1]>>

\* A step in which the service answered and the round was processed.
RoundSucceeds ==
    /\ pc = "request"
    /\ pc' \in {"plan", "return_155"}
    /\ ~rejected'.set

\* C16: after each round that succeeds, used_pages holds the key of every
\* chunk of that round's context, cited or not, first batch included.
C16_UsedPagesHoldsAllShown ==
    [][RoundSucceeds =>
           \A k \in 1..Len(context.entries) :
               Key(context.entries[k].chunk) \in used_pages']_vars

\* C17: a round that succeeds, did not expand and is not the last moves each
\* cursor by the size of the window the planner cut at it, so that the next
\* advancing window starts where this one ended.
C17_CursorsAdvanceByWindow ==
    [][(RoundSucceeds /\ pc' = "plan" /\ ~is_expanding) =>
           /\ text_index' = text_index + TEXT_CHUNKS_PER_ITERATION
           /\ table_index' = table_index + TABLE_CHUNKS_PER_ITERATION]_vars

\* C18: a round that expanded leaves both cursors as they were: a step
\* changes a cursor only when it ends a round that did not expand, whose call
\* succeeded and whose answer was not complete.
C18_CursorsMoveOnlyAfterAdvancing ==
    [][/\ is_expanding => (text_index' = text_index /\ table_index' = table_index)
       /\ (text_index' # text_index \/ table_index' # table_index) =>
              /\ RoundSucceeds
              /\ pc' = "plan"
              /\ ~is_expanding
              /\ ~process_iteration_result(last_answer', current_iteration_chunks,
                                           cumulative_cited_sources,
                                           used_pages).is_complete]_vars

\* The third round is to be planned after one round that advanced and one
\* that expanded: the cursors moved once.
C18_Witness ==
    /\ pc = "plan"
    /\ is_expanding
    /\ ~rejected.set
    /\ iteration = 3
    /\ text_index = API_TEXT_CHUNKS_PER_ITERATION
    /\ table_index = API_TABLE_CHUNKS_PER_ITERATION

\* C19: in a round after the first the planner returns two empty batches, and
\* the loop stops as exhausted, only if both cursors are at or past the end of
\* their pools.
C19_ExhaustedOnlyAtEndOfPools ==
    (pc = "return_165" /\ iteration > 1) =>
        /\ text_index >= Len(all_text_chunks)
        /\ table_index >= Len(all_table_chunks)

\* C20: a request refused as too large changes none of the cursors, the
\* round number, the last answer and the cited sources, and the planner is
\* called next.
C20_TooLargeChangesNothing ==
    [][RespondTooLarge =>
           /\ pc' = "plan"
           /\ text_index' = text_index
           /\ table_index' = table_index
           /\ iteration' = iteration
           /\ last_answer' = last_answer
           /\ cumulative_cited_sources' = cumulative_cited_sources]_vars

\* A request of a later round, with sources cited and the cursors moved, was
\* refused as too large.
C20_Witness ==
    /\ pc = "plan"
    /\ rejected.set
    /\ iteration > 1
    /\ text_index > 0
    /\ cumulative_cited_sources # <<>>
    /\ last_answer # <<>>

\* call_groq_model returns that all credentials are rate limited.
AllLimitedReturned ==
    /\ result.set
    /\ \E w \in 1..(DEFAULT_WAIT_TIME + MaxTime) : result.answer = AllLimitedText(w)

\* C21 as stated: with NumKeys credentials that all answer 429,
\* call_groq_model returns that all are rate limited after at most NumKeys
\* requests.
C21_AtMostOneRequestPerKey ==
    AllLimitedReturned => faults <= NumKeys

\* C21 as amended: a 429 for the credential in use records its timestamp and
\* the call selects again; a request goes only to a credential whose
\* timestamp has passed, a request after the first NumKeys only to one whose
\* recorded timestamp has passed; the call returns that all are rate limited
\* only when every credential is.
C21_RetriesUntilAllLimited ==
    [][/\ (pc = "request" /\ pc' = "select") =>
              /\ \E wait_time \in WaitChoices :
                     GROQ_RATE_LIMIT_UNTIL' =
                         [GROQ_RATE_LIMIT_UNTIL EXCEPT ![info] = now' + Seconds(wait_time)]
              /\ api_key = GROQ_API_KEYS(info)
       /\ (pc = "select" /\ pc' = "request") =>
              /\ api_key' = GROQ_API_KEYS(info')
              /\ now >= GROQ_RATE_LIMIT_UNTIL[info']
              /\ faults >= NumKeys => GROQ_RATE_LIMIT_UNTIL[info'] > 0
       /\ (pc = "select" /\ pc' \in Returns) =>
              /\ \A i \in KeyIndexes : now < GROQ_RATE_LIMIT_UNTIL[i]
              /\ AllLimitedReturned']_vars

\* Every credential answered 429 once, the first one again when its wait had
\* run out, and the call returned that all are rate limited.
C21_Witness ==
    /\ AllLimitedReturned
    /\ faults > NumKeys
    /\ \A i \in KeyIndexes : now < GROQ_RATE_LIMIT_UNTIL[i]

\* The credentials whose timestamp has passed.
Available == {i \in KeyIndexes : now >= GROQ_RATE_LIMIT_UNTIL[i]}

\* The first of them in the cyclic order that starts at the cursor.
FirstAvailable ==
    LET d == CHOOSE n \in 0..(NumKeys - 1) :
                 /\ (current_key_index + n) % NumKeys \in Available
                 /\ \A m \in 0..(n - 1) : (current_key_index + m) % NumKeys \notin Available
    IN  (current_key_index + d) % NumKeys

\* The least remaining wait of the pool, in ticks of the clock.
MinRemaining ==
    CHOOSE m \in {GROQ_RATE_LIMIT_UNTIL[i] - now : i \in KeyIndexes} :
        \A i \in KeyIndexes : m <= GROQ_RATE_LIMIT_UNTIL[i] - now

\* What the lookup does when a credential is available.
LookupTakesFirst ==
    Available # {} =>
        /\ pc' = "request"
        /\ api_key' = GROQ_API_KEYS(FirstAvailable)
        /\ info' = FirstAvailable
        /\ current_key_index' = (FirstAvailable + 1) % NumKeys

\* C22 as stated: the lookup takes the first available credential in cyclic
\* order from the cursor and moves the cursor past it; with none available it
\* leaves the cursor and gives as wait the least remaining wait of the pool,
\* or one second if that is less.
C22_WaitIsLeastRemaining ==
    [][(pc = "select" /\ pc' # "select") =>
           /\ LookupTakesFirst
           /\ Available = {} =>
                  /\ current_key_index' = current_key_index
                  /\ \E w \in 1..(DEFAULT_WAIT_TIME + MaxTime + 2) :
                         /\ result'.answer = AllLimitedText(w)
                         /\ Seconds(w) = Max(Seconds(1), MinRemaining)]_vars

\* C22 as amended: the wait is the whole seconds of the least remaining
\* wait, or one second if that is less.
C22_WaitIsWholeSeconds ==
    [][(pc = "select" /\ pc' # "select") =>
           /\ LookupTakesFirst
           /\ Available = {} =>
                  /\ current_key_index' = current_key_index
                  /\ \E w \in 1..(DEFAULT_WAIT_TIME + MaxTime + 2) :
                         /\ result'.answer = AllLimitedText(w)
                         /\ \/ w = 1 /\ MinRemaining < Seconds(2)
                            \/ /\ Seconds(w) <= MinRemaining
                               /\ MinRemaining < Seconds(w + 1)]_vars

\* The lookup found every credential rate limited, the nearest for a second
\* and a fraction more.
C22_Witness ==
    /\ pc \in Returns
    /\ Available = {}
    /\ MinRemaining > Seconds(1)
    /\ MinRemaining < Seconds(2)
    /\ result.answer = AllLimitedText(1)

\* C23: check_if_answer_insufficient is true exactly of a text whose Status
\* section reads "no information", in any letter case, or that holds the
\* words "no sufficient information"; a text whose Status section reads
\* complete or partial information and whose body holds the words "no
\* information" is not insufficient.
C23_InsufficientIffStatusSaysSo ==
    last_answer # <<>> =>
        (is_insufficient <=>
            \/ StatusMarker(last_answer) = <<"no", "information">>
            \/ TextHasPhrase(LowerText(last_answer),
                             <<"no", "sufficient", "information">>))

\* C24: check_if_answer_incomplete is true exactly of a text a Status line of
\* which reads "partial information", in any letter case, on the line or
\* below it; the words "partial information" elsewhere in an answer whose
\* Status reads complete information do not make it incomplete.
C24_IncompleteIffStatusSaysSo ==
    last_answer # <<>> =>
        (is_incomplete <=> StatusMarker(last_answer) = <<"partial", "information">>)

\* What the answer holds after its first "Sources:", line by line.
AfterSources ==
    LET m == SourcesMarker(last_answer)
    IN  <<SubSeq(last_answer[m[1]], m[2] + 1, Len(last_answer[m[1]]))>>
            \o SubSeq(last_answer, m[1] + 1, Len(last_answer))

\* A line after the marker holds the normalized name and the page of the chunk.
CitedAfterSources(chunk) ==
    \E n \in 1..Len(AfterSources) :
        /\ NameInLine(Lower(DropPdf(Basename(chunk.source))), LowerLine(AfterSources[n]))
        /\ PageInLine(chunk.page, AfterSources[n])

\* C25: extract_used_sources_from_answer returns, in the order of the
\* candidates, the candidates that have a source and a page and that a line
\* after the first "Sources:" names with their page, and nothing for a text
\* with no "Sources:".
C25_CitedAreThoseListed ==
    last_answer # <<>> =>
        cited_in_this_iteration =
            IF SourcesMarker(last_answer) = <<0, 0>> THEN <<>>
            ELSE SelectSeq(current_iteration_chunks, LAMBDA chunk :
                     /\ chunk.source # "" /\ chunk.page # None
                     /\ CitedAfterSources(chunk))

\* "Sources:" and "- alpha.pdf p12": of the candidates of pages 13, 12 and 2
\* those of pages 12 and 2 are returned, in that order.
C25_Witness ==
    /\ last_answer = <<<<"Sources:">>, <<"-", "alpha.pdf", "p" \o ToString(MaxPage + 9)>>>>
    /\ Len(current_iteration_chunks) = 3
    /\ current_iteration_chunks[1].page = MaxPage + 10
    /\ Len(cited_in_this_iteration) >= 1
    /\ cited_in_this_iteration[1] = current_iteration_chunks[2]
    /\ \A i \in 1..Len(cited_in_this_iteration) :
          cited_in_this_iteration[i].page # MaxPage + 10

\* ------------------------------------------- get_surrounding_pages_smart alone

\* Pages a cited chunk may stand on.
CitedPages == 1..(MaxPage + 2)

\* One cited chunk: on a single page, or on merged pages "first-last".
CitedChunks ==
    {Chunk(source, page, "text") : source \in Sources, page \in CitedPages}
        \cup {MergedChunk(p[1], p[2], p[3], "text") :
                 p \in {q \in Sources \X CitedPages \X CitedPages : q[2] < q[3]}}

\* get_surrounding_pages_smart(collection, [chunk], pages_range)
SurroundCall(chunk, pages_range) ==
    /\ pc = "start"
    /\ ~retrieval.set
    /\ all_text_chunks = TextRanking /\ all_table_chunks = TableRanking
    /\ retrieval' = [cited_chunks |-> <<chunk>>, pages_range |-> pages_range,
                     queried |-> surrounding_queries(<<chunk>>, pages_range),
                     surrounding |-> get_surrounding_pages_smart(<<chunk>>, pages_range),
                     set |-> TRUE]
    /\ UNCHANGED <<loopVars, poolVars, thread, assemblerVars, classifierVars>>

RetrievalNext ==
    \E chunk \in CitedChunks, pages_range \in 1..MAX_SURROUNDING_RANGE :
        SurroundCall(chunk, pages_range)

RetrievalSpec == Init /\ [][RetrievalNext]_vars

\* The pages the cited chunk of the call stands on.
OwnPages ==
    IF retrieval.set
    THEN {CurrentPages(retrieval.cited_chunks[1])[i] :
            i \in 1..Len(CurrentPages(retrieval.cited_chunks[1]))}
    ELSE {}

\* C26: for a cited chunk on an integer page or on a hyphenated range of
\* pages, get_surrounding_pages_smart queries no page twice, no page below 1
\* and none of the pages the chunk itself stands on.
C26_QueriesOnlyOtherPages ==
    retrieval.set =>
        /\ \A i, j \in 1..Len(retrieval.queried) :
               retrieval.queried[i] = retrieval.queried[j] => i = j
        /\ \A i \in 1..Len(retrieval.queried) :
               /\ retrieval.queried[i][2] >= 1
               /\ retrieval.queried[i][2] \notin OwnPages
\* ------------------------------------------------------ expansion, C27

\* The chunks the lookups of an expansion find (iteration.py 58-85).
ExpandedChunks(cited, steps) == ExpandCited(cited, {}, steps, <<>>).expanded_chunks

\* The expansion is tried: iteration.py 51-54.
ExpansionTried(iter, answer, cited) ==
    iter > 1 /\ check_if_answer_incomplete(answer) /\ cited # <<>>

\* C27: a planner call returns is_expanding = TRUE exactly when iteration > 1,
\* the last answer is classified partial, a cited source exists and the
\* expansion finds a chunk whose key is not in used_pages; an expansion that
\* finds nothing new returns what the advancing state returns for the
\* cursors; the chunks an expansion returns have keys that were not in
\* used_pages before the call and are in it after, and no key comes twice.
C27_ExpandsIffSomethingNew ==
    [][LET before == UsedWith(cumulative_cited_sources')
           tried == ExpansionTried(iteration', last_answer',
                                   cumulative_cited_sources')
           expanded == ExpandedChunks(cumulative_cited_sources',
                                      source_expansion_steps)
           fresh == \E i \in 1..Len(expanded) : Key(expanded[i]) \notin before
           returned == new_text_batch' \o new_table_batch'
           advancing == AdvancingBatch(all_text_chunks, all_table_chunks,
                                       text_index', table_index', before,
                                       source_expansion_steps)
       IN  /\ is_expanding' <=> (tried /\ fresh)
           /\ (tried /\ ~fresh) =>
                  /\ new_text_batch' = advancing.text
                  /\ new_table_batch' = advancing.tables
                  /\ used_pages' = before
           /\ is_expanding' =>
                  /\ \A i \in 1..Len(returned) :
                         /\ Key(returned[i]) \notin before
                         /\ Key(returned[i]) \in used_pages'
                  /\ \A i, j \in 1..Len(returned) :
                         Key(returned[i]) = Key(returned[j]) => i = j
      ]_vars

\* An expansion has returned one chunk and passed over chunks it had found.
C27_Witness ==
    /\ is_expanding
    /\ iteration > 1
    /\ Len(new_text_batch) + Len(new_table_batch) = 1
    /\ Len(ExpandedChunks(cumulative_cited_sources,
                          [s \in Sources |-> 0])) > 1
\* ------------------------------------------------------ exhaustion, C28

\* The planner has signalled exhaustion and answer_question leaves the loop.
ExhaustionExit == pc = "plan" /\ pc' = "return_165"

\* C28: when the planner signals exhaustion before any complete verdict,
\* answer_question returns the text of the most recent successful completion
\* as it came, its Status line still in it, with all the sources accumulated
\* so far; and a completion has succeeded whenever this exit is taken.
C28_ExhaustionReturnsLastAnswer ==
    [][/\ last_answer' # last_answer => RoundSucceeds
       /\ ExhaustionExit =>
              /\ result'.set
              /\ result'.answer = last_answer
              /\ result'.sources = cumulative_cited_sources
              /\ last_answer \in AnswerSet
              /\ iteration > 1
              /\ StatusMarker(last_answer) # <<>> =>
                     StatusMarker(result'.answer) = StatusMarker(last_answer)
      ]_vars

\* The exit has returned a partial answer, Status line and sources with it.
C28_Witness ==
    /\ pc = "return_165"
    /\ result.answer = last_answer
    /\ StatusMarker(result.answer) = <<"partial", "information">>
    /\ result.sources # <<>>
\* ------------------------------------------------- the complete exit, C29

\* answer_question returns a complete answer (API.py 149-155).
CompleteExit == pc = "request" /\ pc' = "return_155"

\* C29: the credential lookup on the complete exit does nothing: returning a
\* complete answer changes neither the rotation cursor nor any
\* rate-limited-until timestamp of the pool, and what is returned is the
\* answer without its status and the sources, whatever the lookup returns.
C29_CompleteExitLeavesPoolAlone ==
    [][CompleteExit =>
          /\ current_key_index' = current_key_index
          /\ GROQ_RATE_LIMIT_UNTIL' = GROQ_RATE_LIMIT_UNTIL
          /\ result'.answer = remove_status_from_answer(last_answer')
          /\ result'.sources = cumulative_cited_sources'
      ]_vars
\* --------------------------------------------- insufficient rounds, C30

\* The chunks of the round that the Sources section of its answer lists.
ListedInAnswer ==
    extract_used_sources_from_answer(last_answer, current_iteration_chunks)

\* C30: a round whose answer is classified insufficient adds no citation,
\* whatever the Sources section of the answer lists: the cumulative list and
\* used_pages are after the round what they were before it; and in every
\* reachable state the key of every cumulative cited source is in used_pages.
C30_InsufficientAddsNoCitation ==
    /\ [](\A i \in 1..Len(cumulative_cited_sources) :
             Key(cumulative_cited_sources[i]) \in used_pages)
    /\ [][(RoundSucceeds /\ is_insufficient') =>
              /\ cited_in_this_iteration' = <<>>
              /\ cumulative_cited_sources' = cumulative_cited_sources
              /\ used_pages' = used_pages
          ]_vars

\* An insufficient answer has listed a chunk of its round that was never
\* cited, and the round is over.
C30_Witness ==
    /\ pc = "plan"
    /\ is_insufficient
    /\ cited_in_this_iteration = <<>>
    /\ \E i \in 1..Len(ListedInAnswer) : Key(ListedInAnswer[i]) \notin used_pages
====
